---- MODULE Spec2Model ----
(***************************************************************************)
(* Model of src/streamlit_app.py: the auto-part finder pipeline            *)
(*   parse_query_llama3 -> normalized query -> scrape_site per site        *)
(*   (file cache keyed by md5(query + site)) -> choose_optimal -> display. *)
(*                                                                         *)
(* Conventions                                                             *)
(*  - Python strings are TLA+ strings; + is \o.                            *)
(*  - A rating is kept in hundredths (4.07 is 407); the code only builds   *)
(*    ratings 4.0 + k * 0.01 with k in 0..9.                               *)
(*  - A cache file is [written, text]: written = FALSE is the file as      *)
(*    open(filename, "w") leaves it (zero bytes); text is the JSON array   *)
(*    json.dump wrote, one tuple of rendered fields per object.            *)
(***************************************************************************)
EXTENDS Integers, Sequences, FiniteSets, TLC

VARIABLES
    cache,        \* the cache/ directory: file name (digest) -> file
    seed,         \* the process's string-hash seed (PYTHONHASHSEED)
    pc,           \* position of the script run (lines 154-189)
    parsed,       \* line 160: what parse_query_llama3 returned
    query,        \* line 161: the normalized query
    i,            \* line 164: index of the next site of the fan-out loop
    all_results,  \* line 163: the accumulated records
    optimal_df,   \* line 167: what choose_optimal returned
    shown,        \* lines 185-189: what the recommendation block displayed
    call,         \* the latest scrape_site call: its arguments, and whether
                  \* it took the synthesis branch (lines 118-128)
    ret,          \* what the latest scrape_site call returned
    firstRet,     \* (query, site) -> the list its first call returned
    sess          \* concurrent sessions: each one's position in scrape_site

vars == <<cache, seed, pc, parsed, query, i, all_results, optimal_df, shown,
          call, ret, firstRet, sess>>

(***************************************************************************)
(* Bounds                                                                  *)
(***************************************************************************)
MaxResults == 3

MaxContent == 4

MaxConcSites == 2

(***************************************************************************)
(* Generic helpers                                                         *)
(***************************************************************************)
SeqsUpTo(S, n) == UNION {[1..m -> S] : m \in 0..n}

SetMin(S) == CHOOSE x \in S : \A y \in S : x <= y

SetMax(S) == CHOOSE x \in S : \A y \in S : x >= y

(***************************************************************************)
(* choose_optimal and build_decision_tree (lines 103-108, 131-138)         *)
(***************************************************************************)

\* sklearn's trees convert X to 32-bit floats in fit and in predict.  An
\* integer of magnitude up to 2^24 is kept; between 2^24 and 2^25 the
\* representable values are the even integers and an odd one is rounded to
\* the neighbour with an even mantissa (a multiple of 4).
F32(n) ==
    LET a == IF n < 0 THEN -n ELSE n
        r == IF a <= 16777216 \/ a % 2 = 0 THEN a
             ELSE IF (a - 1) % 4 = 0 THEN a - 1 ELSE a + 1
    IN  IF n < 0 THEN -r ELSE r

\* X = data[["price", "rating"]] as the classifier sees a row.
Features(row) == <<F32(row.price), F32(row.rating)>>

\* Line 133 without the rating test.
Suitability_price_only(results, n) ==
    IF results[n].price <= SetMin({results[m].price : m \in 1..Len(results)})
    THEN 1 ELSE 0

\* Line 133 with < and > for <= and >=.
Suitability_strict(results, n) ==
    LET minPrice  == SetMin({results[m].price : m \in 1..Len(results)})
        maxRating == SetMax({results[m].rating : m \in 1..Len(results)})
    IN  IF results[n].price < minPrice /\ results[n].rating > maxRating
        THEN 1 ELSE 0

\* Line 133: 1 when the row has the least price and the greatest rating.
Suitability(results, n) ==
    LET minPrice  == SetMin({results[m].price : m \in 1..Len(results)})
        maxRating == SetMax({results[m].rating : m \in 1..Len(results)})
    IN  IF results[n].price <= minPrice /\ results[n].rating >= maxRating
        THEN 1 ELSE 0

\* DataFrame(results) with the suitability column (lines 132-134).
WithSuitability(results) ==
    [n \in 1..Len(results) |->
        [name |-> results[n].name, price |-> results[n].price,
         rating |-> results[n].rating, link |-> results[n].link,
         suitability |-> Suitability(results, n)]]

\* An unrestricted tree is grown until every leaf is pure or holds rows with
\* one feature vector only; for a training row it answers the majority
\* label of the rows that share its feature vector, class 0 on a tie
\* (argmax takes the first class).
build_decision_tree(data) ==
    [x \in {Features(data[n]) : n \in 1..Len(data)} |->
        LET ones  == Cardinality({n \in 1..Len(data) :
                        Features(data[n]) = x /\ data[n].suitability = 1})
            zeros == Cardinality({n \in 1..Len(data) :
                        Features(data[n]) = x /\ data[n].suitability = 0})
        IN  IF ones > zeros THEN 1 ELSE 0]

\* Line 136: the pred column.
WithPred(data) ==
    LET clf == build_decision_tree(data)
    IN  [n \in 1..Len(data) |->
            [name |-> data[n].name, price |-> data[n].price,
             rating |-> data[n].rating, link |-> data[n].link,
             suitability |-> data[n].suitability,
             pred |-> clf[Features(data[n])]]]

\* The order of sort_values(by=["price", "rating"], ascending=[True, False]).
Before(a, b) ==
    \/ a.price < b.price
    \/ a.price = b.price /\ a.rating > b.rating

\* Stable insertion of row into a sorted sequence: after every row that is
\* not strictly behind it.
RECURSIVE InsertSorted(_, _)
InsertSorted(row, sorted) ==
    IF sorted = << >> THEN <<row>>
    ELSE IF Before(row, Head(sorted)) THEN <<row>> \o sorted
    ELSE <<Head(sorted)>> \o InsertSorted(row, Tail(sorted))

\* sort_values on several columns is a stable lexicographic sort.
RECURSIVE SortValues(_)
SortValues(rows) ==
    IF rows = << >> THEN << >>
    ELSE InsertSorted(rows[Len(rows)], SortValues(SubSeq(rows, 1, Len(rows) - 1)))

\* df[df["pred"] == 1]
PredictedSuitable(data) == SelectSeq(data, LAMBDA row : row.pred = 1)

\* choose_optimal(results).  DataFrame([]) has no columns, so df["price"]
\* raises KeyError on the empty list; otherwise the frame head(1) returns.
choose_optimal(results) ==
    IF results = << >>
    THEN [raised |-> "KeyError", rows |-> << >>]
    ELSE LET df_sorted == SortValues(PredictedSuitable(WithPred(WithSuitability(results))))
         IN  [raised |-> "none",
              rows |-> IF df_sorted = << >> THEN << >> ELSE <<Head(df_sorted)>>]

(***************************************************************************)
(* The cache file and its JSON content (lines 112-116, 125-126)            *)
(***************************************************************************)

\* hashlib.md5(...).hexdigest(): the digest is kept symbolic, one digest per
\* input string (no two inputs of the model collide).
md5_hexdigest(s) == "md5(" \o s \o ")"

\* Line 112 with the site alone as key.
FileName_site_only(q, site) == "cache/" \o md5_hexdigest(site) \o ".json"

\* Line 112: the key is the digest of the plain concatenation query + site.
FileName(q, site) == "cache/" \o md5_hexdigest(q \o site) \o ".json"

\* json.dump of a result list: one object per record, the float rating
\* rendered in decimal as integer part and two-digit fraction.
json_dump(results) ==
    [n \in 1..Len(results) |->
        <<results[n].name, results[n].price,
          results[n].rating \div 100, results[n].rating % 100,
          results[n].link>>]

\* json.load of a cache file: a zero-byte file is not a JSON document
\* (JSONDecodeError); otherwise the array is read back object by object.
json_load(file) ==
    IF ~file.written
    THEN [raised |-> "JSONDecodeError", value |-> << >>]
    ELSE [raised |-> "none",
          value |-> [n \in 1..Len(file.text) |->
                        [name |-> file.text[n][1], price |-> file.text[n][2],
                         rating |-> 100 * file.text[n][3] + file.text[n][4],
                         link |-> file.text[n][5]]]]

\* os.path.exists(filename)
Exists(c, f) == f \in DOMAIN c

\* open(filename, "w"): creates the file or truncates it to zero bytes.
FileOpenW(c, f) ==
    [k \in DOMAIN c \cup {f} |->
        IF k = f THEN [written |-> FALSE, text |-> << >>] ELSE c[k]]

\* json.dump(result, f) and the close at the end of the with block: the
\* buffered text reaches the file in one write.
FileWrite(c, f, text) ==
    [k \in DOMAIN c \cup {f} |->
        IF k = f THEN [written |-> TRUE, text |-> text] ELSE c[k]]

(***************************************************************************)
(* scrape_site (lines 111-128)                                             *)
(***************************************************************************)

\* The seeds a process may start with; 0 is PYTHONHASHSEED=0.
Seeds == {-3, 0, 7}

\* hash(site): Python's string hash is a keyed hash, fixed for the life of
\* the process and different from one process to the next; it takes
\* negative values as well as positive ones.
Hash(sd, site) == sd * (31 * Len(site) + 17)

\* The remainder of a division that truncates towards zero (C's %).
TruncMod(a, n) == IF a >= 0 THEN a % n ELSE -((-a) % n)

\* Python's %: the result has the sign of the (positive) divisor.
PyMod(a, n) == a - n * (a \div n)

\* Lines 118-123: the one record synthesized on a cache miss.
Synthesize(sd, q, site) ==
    << [name   |-> q \o " - Sample from " \o site,
        price  |-> 1500 + PyMod(Hash(sd, site), 500),
        rating |-> 400 + PyMod(Hash(sd, site), 10),
        link   |-> site] >>

\* scrape_site without the os.path.exists test: every call synthesizes and
\* writes.
scrape_site_uncached(c, sd, q, site) ==
    LET result == Synthesize(sd, q, site)
    IN  [raised |-> "none", value |-> result,
         cache |-> FileWrite(FileOpenW(c, FileName(q, site)), FileName(q, site),
                             json_dump(result)),
         miss |-> TRUE]

\* scrape_site(query, site) run without interruption: the returned list (or
\* the exception of json.load) and the cache directory it leaves.
scrape_site(c, sd, q, site) ==
    LET filename == FileName(q, site)
    IN  IF Exists(c, filename)
        THEN LET loaded == json_load(c[filename])
             IN  [raised |-> loaded.raised, value |-> loaded.value,
                  cache |-> c, miss |-> FALSE]
        ELSE LET result == Synthesize(sd, q, site)
             IN  [raised |-> "none", value |-> result,
                  cache |-> FileWrite(FileOpenW(c, filename), filename,
                                      json_dump(result)),
                  miss |-> TRUE]

(***************************************************************************)
(* parse_query_llama3 (lines 77-100)                                       *)
(***************************************************************************)

\* The reply of the language model is a sequence of tokens: braces, free
\* text, and JSON members "key": value.
MemberTokens == {"P1", "V1", "R1"}

Tokens == {"{", "}", "txt"} \cup MemberTokens

TokKey(t) ==
    CASE t = "P1" -> "part_type"
      [] t = "V1" -> "vehicle_model"
      [] OTHER -> "price_range"

TokValue(t) ==
    CASE t = "P1" -> "brake pad"
      [] t = "V1" -> "Honda Civic"
      [] OTHER -> "[500, 3000]"

\* content.find('{'): the first position (from 0), -1 when there is none.
Find(content, t) ==
    IF \E n \in 1..Len(content) : content[n] = t
    THEN SetMin({n \in 1..Len(content) : content[n] = t}) - 1
    ELSE -1

\* content.rfind('}'): the last position (from 0), -1 when there is none.
RFind(content, t) ==
    IF \E n \in 1..Len(content) : content[n] = t
    THEN SetMax({n \in 1..Len(content) : content[n] = t}) - 1
    ELSE -1

\* content[a:b] for 0 <= a, b <= len: empty when b <= a.
Slice(content, a, b) == SubSeq(content, a + 1, b)

\* json.loads of a text that starts with '{': an object when the text is
\* '{' members '}', the last member of a key winning; anything else raises.
json_loads(text) ==
    IF /\ Len(text) >= 2
       /\ text[1] = "{"
       /\ text[Len(text)] = "}"
       /\ \A n \in 2..(Len(text) - 1) : text[n] \in MemberTokens
    THEN [raised |-> "none",
          value |-> [k \in {TokKey(text[n]) : n \in 2..(Len(text) - 1)} |->
                        TokValue(text[SetMax({n \in 2..(Len(text) - 1) :
                                                TokKey(text[n]) = k})])]]
    ELSE [raised |-> "JSONDecodeError", value |-> << >>]

\* Line 100: the dictionary returned from the except branch (the list
\* [0, 999999] as its text, like the other values of the dictionary).
DefaultParsed ==
    [part_type |-> "", vehicle_model |-> "", price_range |-> "[0, 999999]"]

\* parse_query_llama3: chatRaises is ollama.chat (or the indexing of its
\* response) raising; every exception of the try block ends in line 100.
parse_query_llama3(chatRaises, content) ==
    IF chatRaises THEN DefaultParsed
    ELSE LET json_start == Find(content, "{")
             json_end   == RFind(content, "}")
         IN  IF json_start # -1 /\ json_end # -1
             THEN LET loaded == json_loads(Slice(content, json_start, json_end + 1))
                  IN  IF loaded.raised = "none" THEN loaded.value
                      ELSE DefaultParsed
             ELSE DefaultParsed

\* Lines 141-150.
supported_sites ==
    << "https://www.amazon.in/", "https://www.ebay.com/",
       "https://www.rockauto.com/", "https://www.autozone.com/",
       "https://shop.advanceautoparts.com/", "https://www.napaonline.com/",
       "https://www.summitracing.com/", "https://www.eurocarparts.com/",
       "https://www.halfords.com/", "https://www.autodoc.co.uk/",
       "https://www.motointegrator.com/", "https://boodmo.com/",
       "https://gomechanic.in/", "https://www.cardekho.com/",
       "https://www.supercheapauto.com.au/", "https://www.repco.com.au/",
       "https://www.partslink24.com/",
       "https://www.tecalliance.com/en/solutions/tecdoc-catalog",
       "https://www.pricerunner.com/", "https://camelcamelcamel.com/" >>

(***************************************************************************)
(* State                                                                   *)
(***************************************************************************)
NoDict == [k \in {} |-> ""]

NoFrame == [raised |-> "none", rows |-> << >>]

NoCall == [query |-> "", site |-> "", miss |-> FALSE]

Sessions == {1, 2}

\* The sites and the query two concurrent sessions both ask for.
ConcSites == SubSeq(supported_sites, 1, MaxConcSites)

ConcQuery == " for "

IdleSession == [pc |-> "idle", n |-> 1, result |-> << >>, out |-> << >>]

\* The part of the state a script run owns, as a new run finds it.
RunReset ==
    /\ parsed = NoDict /\ query = "" /\ i = 1 /\ all_results = << >>
    /\ optimal_df = NoFrame /\ shown = ""

ObserverReset ==
    /\ call = NoCall /\ ret = << >> /\ firstRet = [k \in {} |-> << >>]

\* The process starts with an empty cache directory and waits for a query
\* (lines 153-156).
Init ==
    /\ cache = [k \in {} |-> [written |-> FALSE, text |-> << >>]]
    /\ seed \in Seeds
    /\ pc = "input"
    /\ RunReset
    /\ ObserverReset
    /\ sess = [s \in Sessions |-> IdleSession]

\* What a scrape_site call leaves for the observer variables.
Observe(q, site, r) ==
    /\ call' = [query |-> q, site |-> site, miss |-> r.miss]
    /\ ret' = r.value
    /\ firstRet' = IF <<q, site>> \in DOMAIN firstRet THEN firstRet
                   ELSE [k \in DOMAIN firstRet \cup {<<q, site>>} |->
                            IF k = <<q, site>> THEN r.value ELSE firstRet[k]]

(***************************************************************************)
(* The script run (lines 154-189)                                          *)
(***************************************************************************)

\* Line 160: the user submits a query and the language model answers.
Submit ==
    /\ pc = "input"
    /\ \/ parsed' = parse_query_llama3(TRUE, << >>)
       \/ \E content \in SeqsUpTo(Tokens, MaxContent) :
             parsed' = parse_query_llama3(FALSE, content)
    /\ pc' = "normalize"
    /\ UNCHANGED <<cache, seed, query, i, all_results, optimal_df, shown,
                   call, ret, firstRet, sess>>

\* Lines 161-163: parsed['part_type'] and parsed['vehicle_model'] raise
\* KeyError when the dictionary lacks the key, which ends the run.
Normalize ==
    /\ pc = "normalize"
    /\ IF {"part_type", "vehicle_model"} \subseteq DOMAIN parsed
       THEN /\ query' = parsed["part_type"] \o " for " \o parsed["vehicle_model"]
            /\ all_results' = << >>
            /\ i' = 1
            /\ pc' = "fanout"
            /\ shown' = shown
       ELSE /\ pc' = "crashed"
            /\ shown' = "KeyError"
            /\ UNCHANGED <<query, all_results, i>>
    /\ UNCHANGED <<cache, seed, parsed, optimal_df, call, ret, firstRet, sess>>

\* Lines 164-165: one iteration of the loop over supported_sites.
FanOut ==
    /\ pc = "fanout"
    /\ i <= Len(supported_sites)
    /\ LET r == scrape_site(cache, seed, query, supported_sites[i])
       IN  /\ cache' = r.cache
           /\ Observe(query, supported_sites[i], r)
           /\ IF r.raised = "none"
              THEN /\ all_results' = all_results \o r.value
                   /\ i' = i + 1
                   /\ pc' = IF i = Len(supported_sites) THEN "rank" ELSE "fanout"
                   /\ shown' = shown
              ELSE /\ pc' = "crashed"
                   /\ shown' = r.raised
                   /\ UNCHANGED <<all_results, i>>
    /\ UNCHANGED <<seed, parsed, query, optimal_df, sess>>

\* Line 167.
Rank ==
    /\ pc = "rank"
    /\ optimal_df' = choose_optimal(all_results)
    /\ IF optimal_df'.raised = "none"
       THEN pc' = "display" /\ shown' = shown
       ELSE pc' = "crashed" /\ shown' = optimal_df'.raised
    /\ UNCHANGED <<cache, seed, parsed, query, i, all_results, call, ret,
                   firstRet, sess>>

\* Lines 185-189.
Display ==
    /\ pc = "display"
    /\ shown' = IF optimal_df.rows # << >> THEN "Optimal Recommendation"
                ELSE "No suitable products found."
    /\ pc' = "done"
    /\ UNCHANGED <<cache, seed, parsed, query, i, all_results, optimal_df,
                   call, ret, firstRet, sess>>

\* A new input reruns the script from the top with fresh locals.
Rerun ==
    /\ pc \in {"done", "crashed"}
    /\ pc' = "input"
    /\ parsed' = NoDict /\ query' = "" /\ i' = 1 /\ all_results' = << >>
    /\ optimal_df' = NoFrame /\ shown' = ""
    /\ UNCHANGED <<cache, seed, call, ret, firstRet, sess>>

\* The process is stopped and started again: the hash seed is drawn anew,
\* the cache directory stays.
Restart ==
    /\ pc \in {"input", "api"}
    /\ seed' \in Seeds
    /\ UNCHANGED <<cache, pc, parsed, query, i, all_results, optimal_df,
                   shown, call, ret, firstRet, sess>>

Next == Submit \/ Normalize \/ FanOut \/ Rank \/ Display \/ Rerun \/ Restart

Spec == Init /\ [][Next]_vars

(***************************************************************************)
(* scrape_site and choose_optimal called directly, with any arguments      *)
(***************************************************************************)
ApiQueries == {"a", "ab"}

ApiSites == {"bc", "c"}

InitScrape ==
    /\ cache = [k \in {} |-> [written |-> FALSE, text |-> << >>]]
    /\ seed \in Seeds
    /\ pc = "api"
    /\ RunReset
    /\ ObserverReset
    /\ sess = [s \in Sessions |-> IdleSession]

ScrapeCall ==
    /\ pc = "api"
    /\ \E q \in ApiQueries, site \in ApiSites :
          LET r == scrape_site(cache, seed, q, site)
          IN  /\ cache' = r.cache
              /\ Observe(q, site, r)
    /\ UNCHANGED <<seed, pc, parsed, query, i, all_results, optimal_df,
                   shown, sess>>

ChooseCall ==
    /\ pc = "api"
    /\ DOMAIN firstRet # {}
    /\ optimal_df' = choose_optimal(ret)
    /\ UNCHANGED <<cache, seed, pc, parsed, query, i, all_results, shown,
                   call, ret, firstRet, sess>>

NextScrape == ScrapeCall \/ ChooseCall \/ Restart

SpecScrape == InitScrape /\ [][NextScrape]_vars

(***************************************************************************)
(* choose_optimal on any result list: the run entered at line 167          *)
(***************************************************************************)
RankPrices == {1500, 1501, 1502}

RankRatings == {400, 409}

\* Prices around 2^24, where 32-bit floats no longer tell integers apart.
WidePrices == {1500, 16777216, 16777217}

Records(prices) ==
    [name : {"A", "B"}, price : prices, rating : RankRatings, link : {"s"}]

InitRankOver(prices) ==
    /\ cache = [k \in {} |-> [written |-> FALSE, text |-> << >>]]
    /\ seed = 0
    /\ pc = "rank"
    /\ parsed = NoDict /\ query = "" /\ i = 1
    /\ all_results \in SeqsUpTo(Records(prices), MaxResults)
    /\ optimal_df = NoFrame /\ shown = ""
    /\ ObserverReset
    /\ sess = [s \in Sessions |-> IdleSession]

InitRank == InitRankOver(RankPrices)

InitRankWide == InitRankOver(WidePrices)

NextRank == Rank \/ Display

SpecRank == InitRank /\ [][NextRank]_vars

SpecRankWide == InitRankWide /\ [][NextRank]_vars

(***************************************************************************)
(* Two sessions of one process running the fan-out at the same time        *)
(***************************************************************************)
InitConc ==
    /\ cache = [k \in {} |-> [written |-> FALSE, text |-> << >>]]
    /\ seed \in Seeds
    /\ pc = "sessions"
    /\ RunReset
    /\ ObserverReset
    /\ sess = [s \in Sessions |-> IdleSession]

ConcFile(s) == FileName(ConcQuery, ConcSites[sess[s].n])

\* The session's scrape_site call returns value: the loop goes on to the
\* next site (lines 164-165).
Returned(s, value) ==
    [pc |-> IF sess[s].n = Len(ConcSites) THEN "done" ELSE "exists",
     n |-> sess[s].n + 1,
     result |-> << >>,
     out |-> sess[s].out \o value]

\* A session's script run reaches the loop of line 164.
SStart(s) ==
    /\ pc = "sessions"
    /\ sess[s].pc = "idle"
    /\ sess' = [sess EXCEPT ![s].pc = "exists"]
    /\ UNCHANGED <<cache, seed, pc, parsed, query, i, all_results,
                   optimal_df, shown, call, ret, firstRet>>

\* Line 114: os.path.exists; on a miss lines 118-123 build the record.
SExists(s) ==
    /\ sess[s].pc = "exists"
    /\ sess' = IF Exists(cache, ConcFile(s))
               THEN [sess EXCEPT ![s].pc = "read"]
               ELSE [sess EXCEPT ![s].pc = "open_w",
                                 ![s].result = Synthesize(seed, ConcQuery,
                                                   ConcSites[sess[s].n])]
    /\ UNCHANGED <<cache, seed, pc, parsed, query, i, all_results,
                   optimal_df, shown, call, ret, firstRet>>

\* Lines 115-116: open for reading and json.load.
SRead(s) ==
    /\ sess[s].pc = "read"
    /\ LET loaded == json_load(cache[ConcFile(s)])
       IN  sess' = IF loaded.raised = "none"
                   THEN [sess EXCEPT ![s] = Returned(s, loaded.value)]
                   ELSE [sess EXCEPT ![s].pc = "failed"]
    /\ UNCHANGED <<cache, seed, pc, parsed, query, i, all_results,
                   optimal_df, shown, call, ret, firstRet>>

\* Line 125: open for writing.
SOpenW(s) ==
    /\ sess[s].pc = "open_w"
    /\ cache' = FileOpenW(cache, ConcFile(s))
    /\ sess' = [sess EXCEPT ![s].pc = "write"]
    /\ UNCHANGED <<seed, pc, parsed, query, i, all_results, optimal_df,
                   shown, call, ret, firstRet>>

\* Lines 126-128: json.dump, close, return result.
SWrite(s) ==
    /\ sess[s].pc = "write"
    /\ cache' = FileWrite(cache, ConcFile(s), json_dump(sess[s].result))
    /\ sess' = [sess EXCEPT ![s] = Returned(s, sess[s].result)]
    /\ UNCHANGED <<seed, pc, parsed, query, i, all_results, optimal_df,
                   shown, call, ret, firstRet>>

NextConc ==
    \E s \in Sessions :
        SStart(s) \/ SExists(s) \/ SRead(s) \/ SOpenW(s) \/ SWrite(s)

SpecConc == InitConc /\ [][NextConc]_vars

(***************************************************************************)
(* Properties                                                              *)
(***************************************************************************)
SampleName(q, site) == q \o " - Sample from " \o site

CallKey == <<call.query, call.site>>

Called == DOMAIN firstRet # {}

\* C1 (cache determinism): every scrape_site call for a pair returns the
\* list the first call for that pair returned, whatever calls for other
\* pairs, choose_optimal calls and process restarts came in between, and no
\* step changes or removes a cache file that exists.
C1_CacheDeterminism ==
    /\ [](Called => ret = firstRet[CallKey])
    /\ [][\A k \in DOMAIN cache : k \in DOMAIN cache' /\ cache'[k] = cache[k]]_vars

\* A repeated call answered from the pair's own cache file after the hash
\* seed changed: synthesis would now give another record.
C1_Witness ==
    /\ Called
    /\ ~call.miss
    /\ ret # Synthesize(seed, call.query, call.site)
    /\ ret[1].name = SampleName(call.query, call.site)
    /\ optimal_df # NoFrame

\* C2 (cache isolation): two different (query, site) pairs never share a
\* cache file, and a call is answered with the record of its own pair.
C2_CacheIsolation ==
    Called =>
        /\ \A p \in DOMAIN firstRet :
              p # CallKey => FileName(p[1], p[2]) # FileName(call.query, call.site)
        /\ \A n \in 1..Len(ret) :
              ret[n].name = SampleName(call.query, call.site)

\* C8 (cache-miss synthesis): a call that found no cache file returns one
\* record with the sample name, a price in [1500, 2000), a rating in
\* [4.0, 4.1) and the site as link, and the cache file holds that list.
C8_MissSynthesis ==
    call.miss =>
        /\ Len(ret) = 1
        /\ ret[1].name = SampleName(call.query, call.site)
        /\ ret[1].price \in 1500..1999
        /\ ret[1].rating \in 400..409
        /\ ret[1].link = call.site
        /\ Exists(cache, FileName(call.query, call.site))
        /\ json_load(cache[FileName(call.query, call.site)])
              = [raised |-> "none", value |-> ret]

\* A miss under a negative hash of the site.
C8_Witness ==
    /\ call.miss
    /\ Hash(seed, call.site) < 0
    /\ ret = Synthesize(seed, call.query, call.site)

\* The record of a data-frame row: its columns without suitability and pred.
Rec(row) ==
    [name |-> row.name, price |-> row.price, rating |-> row.rating,
     link |-> row.link]

Ranked == pc \in {"display", "done"}

Prices(results) == {results[n].price : n \in 1..Len(results)}

Ratings(results) == {results[n].rating : n \in 1..Len(results)}

\* Record n has the least price and the greatest rating of the list.
CheapestAndBest(results, n) ==
    /\ results[n].price = SetMin(Prices(results))
    /\ results[n].rating = SetMax(Ratings(results))

\* The sign of score(a) - score(b) for
\*   score = (1 - norm_price) * 0.6 + norm_rating * 0.4,
\*   norm_x = (x - min_x) / (max_x - min_x + 1e-6),
\* in exact arithmetic: the difference times the positive number
\* 10^7 * (max_price - min_price + 1e-6) * (100 * (max_rating - min_rating) + 1e-4),
\* ratings being in hundredths.
ScoreLead(results, a, b) ==
    LET dp == SetMax(Prices(results)) - SetMin(Prices(results))
        dr == SetMax(Ratings(results)) - SetMin(Ratings(results))
        cheaper == results[b].price - results[a].price
        better  == results[a].rating - results[b].rating
    IN  (6 * cheaper * dr + 4 * better * dp) * 1000000
            + (600 * cheaper + 4 * better)

\* The first record, in input order, whose score is the maximum.
FirstMaxScore(results) ==
    SetMin({n \in 1..Len(results) :
               \A m \in 1..Len(results) : ScoreLead(results, n, m) >= 0})

\* C3 (empty-input safety): choose_optimal of the empty list returns the
\* empty outcome without raising, and the run shows "No suitable products
\* found.".
C3_EmptyInputSafe ==
    (all_results = << >> /\ pc # "rank") =>
        /\ pc # "crashed"
        /\ optimal_df = [raised |-> "none", rows |-> << >>]
        /\ (pc = "done" => shown = "No suitable products found.")

\* C4 (as claimed): for every non-empty list choose_optimal returns exactly
\* one winner, the first record in input order of maximum score.
C4_MaxScoreWinner ==
    (all_results # << >> /\ Ranked) =>
        /\ Len(optimal_df.rows) = 1
        /\ Rec(optimal_df.rows[1]) = all_results[FirstMaxScore(all_results)]

\* C4 (amended): for every non-empty list choose_optimal returns at most
\* one record; a record it returns is the first record in input order of
\* maximum score; it returns nothing when no record has both the least
\* price and the greatest rating.
C4_WinnerWhenReturned ==
    (all_results # << >> /\ Ranked) =>
        /\ optimal_df.raised = "none"
        /\ Len(optimal_df.rows) <= 1
        /\ (optimal_df.rows # << >> =>
              Rec(optimal_df.rows[1]) = all_results[FirstMaxScore(all_results)])
        /\ ((\A n \in 1..Len(all_results) : ~CheapestAndBest(all_results, n))
              => optimal_df.rows = << >>)

\* Three records, the last two tie for the maximum score under different
\* names, and the earlier of the two is returned.
C4_Witness ==
    /\ pc = "done"
    /\ Len(all_results) = 3
    /\ FirstMaxScore(all_results) = 2
    /\ ScoreLead(all_results, 3, 2) = 0
    /\ all_results[2].name # all_results[3].name
    /\ optimal_df.rows # << >>
    /\ Rec(optimal_df.rows[1]) = all_results[2]

\* All records of the list have one price and one rating.
Degenerate(results) ==
    /\ results # << >>
    /\ Cardinality(Prices(results)) = 1
    /\ Cardinality(Ratings(results)) = 1

\* C5 (degenerate input): on a single record, and on a list whose records
\* all have the same price and rating, choose_optimal does not raise and
\* returns the first record of the list.
C5_DegenerateInput ==
    (Degenerate(all_results) /\ pc # "rank") =>
        /\ pc # "crashed"
        /\ optimal_df.raised = "none"
        /\ Len(optimal_df.rows) = 1
        /\ Rec(optimal_df.rows[1]) = all_results[1]

\* Three records of one price and rating but two names.
C5_Witness ==
    /\ pc = "done"
    /\ Len(all_results) = 3
    /\ Degenerate(all_results)
    /\ all_results[1].name # all_results[2].name
    /\ shown = "Optimal Recommendation"

\* C9 (decision rule): on a non-empty list choose_optimal returns a record
\* exactly when some record has both the least price and the greatest
\* rating, and the record it returns is such a record of the list.
C9_DecisionRule ==
    (all_results # << >> /\ Ranked) =>
        /\ optimal_df.rows # << >>
              <=> \E n \in 1..Len(all_results) : CheapestAndBest(all_results, n)
        /\ optimal_df.rows # << >> =>
              \E n \in 1..Len(all_results) :
                  /\ Rec(optimal_df.rows[1]) = all_results[n]
                  /\ CheapestAndBest(all_results, n)

\* C6 (language-model outcomes are never fatal): no run ends in an
\* exception, and a run that got the default dictionary goes on with the
\* query " for ".
C6_LlmNeverFatal ==
    /\ pc # "crashed"
    /\ (parsed = DefaultParsed /\ pc \in {"fanout", "rank", "display", "done"})
          => query = " for "

\* C7 (fan-out): when the loop of a run is over, all_results has one record
\* per supported site, in the order of supported_sites, named for the
\* run's query and the site.
C7_FanOut ==
    pc \in {"rank", "display", "done"} =>
        /\ Len(all_results) = Len(supported_sites)
        /\ \A n \in 1..Len(supported_sites) :
              all_results[n].name = SampleName(query, supported_sites[n])

\* A run answered from the cache (its last call was a hit), in a cache
\* directory that also holds the files of a run with another query.
C7_Witness ==
    /\ pc = "rank"
    /\ query = " for "
    /\ ~call.miss
    /\ Exists(cache, FileName("brake pad for Honda Civic", supported_sites[1]))
    /\ ret # Synthesize(seed, query, supported_sites[Len(supported_sites)])

\* C10 (same-key concurrency): no session's scrape_site call fails, and
\* sessions that finished got the same lists of well-formed records.
C10_SameKeyConcurrency ==
    /\ \A s \in Sessions : sess[s].pc # "failed"
    /\ \A s, t \in Sessions :
          (sess[s].pc = "done" /\ sess[t].pc = "done") =>
              /\ sess[s].out = sess[t].out
              /\ Len(sess[s].out) = Len(ConcSites)
              /\ \A n \in 1..Len(ConcSites) :
                    sess[s].out[n].name = SampleName(ConcQuery, ConcSites[n])

====
